---- MODULE Spec2Model ----
(***************************************************************************)
(* Call-center analytics core: DataLoader (record store with cache),       *)
(* MonthlyReport / WeeklyReport (period resolver) and MetricLoader         *)
(* (metric aggregator).                                                    *)
(*                                                                         *)
(* Spec        the DataLoader used against backing files that an external  *)
(*             producer may rewrite or remove between calls.               *)
(* ReportSpec  the period resolver and aggregator run on tables drawn from *)
(*             bounded sets of overall / agent / channel files.            *)
(***************************************************************************)
EXTENDS Integers, Sequences, FiniteSets, TLC

VARIABLES
    period,     \* DataLoader.period
    data_dir,   \* DataLoader.data_dir, named by its last path component
    cache,      \* DataLoader._cache : cache key -> DataFrame object
    storage,    \* the CSV files: storage[dir][table] is a file or Missing
    reads,      \* number of pd.read_csv calls made so far
    writes,     \* number of changes the producer has made to the files
    last        \* the most recent call and its outcome

vars == <<period, data_dir, cache, storage, reads, writes, last>>

-----------------------------------------------------------------------------
(* Bounds *)

MaxReads == 2
MaxWrites == 1
MaxRows == 3
MaxAgentRows == 2
MaxChannelRows == 1
TicksPerDay == 2
MaxTeamRows == 3
MaxCalls == 2

-----------------------------------------------------------------------------
(* Values *)

Periods == {"monthly", "weekly"}
Tables == {"overall", "agent", "channel", "calls"}

\* A file that does not exist, and the DataFrame of a call that returned none.
Missing == [exists |-> FALSE, cols |-> {}, rows |-> <<>>]
NoDataFrame == [id |-> 0, data |-> [cols |-> {}, rows |-> <<>>], dir |-> "none"]

\* Python's None and pandas' NaT where a timestamp or an id is expected.
None == -1
NaT == -2

date_col(p) == IF p = "monthly" THEN "month" ELSE "week_start"

\* Calendar dates as they stand in a CSV cell: <<year, month, day>>.
FileDates(p) ==
    IF p = "monthly"
    THEN <<(<<2025, 1, 1>>), (<<2025, 2, 1>>), (<<2025, 3, 1>>)>>
    ELSE <<(<<2025, 1, 6>>), (<<2025, 1, 13>>), (<<2025, 1, 20>>)>>

\* pd.to_datetime of one cell: an order-preserving, injective map of the date
\* to a timestamp counted in ticks (midnight of the day).
to_datetime(d) == ((d[1] - 2025) * 372 + (d[2] - 1) * 31 + (d[3] - 1)) * TicksPerDay

\* pd.Timestamp(x).normalize(): midnight of the day of x.
normalize(ts) == ts - (ts % TicksPerDay)

-----------------------------------------------------------------------------
(* Tables.  A table is [cols |-> set of column names, rows |-> sequence of  *)
(* rows], a row being a function from cols to cell values.                 *)

AllCols(p, t) ==
    CASE t = "overall" ->
            {date_col(p), "total_interactions", "total_cost", "cost_per_interaction"}
                \cup (IF p = "monthly" THEN {"month_name"} ELSE {})
      [] t = "agent" ->
            {date_col(p), "agent_id", "agent_name", "total_interactions"}
      [] t = "channel" ->
            {date_col(p), "channel", "total_interactions"}
      [] t = "calls" ->
            {date_col(p), "date", "call_id", "agent_id", "duration_minutes"}

\* round(num / den, 2) for num >= 0, den > 0, in hundredths (ties to even)
round2(num, den) ==
    LET q == (100 * num) \div den
        r == (100 * num) % den
    IN  IF 2 * r > den \/ (2 * r = den /\ q % 2 = 1) THEN q + 1 ELSE q

\* One cell of a generated row: d is the row's date, k an integer that tells
\* the rows of one period apart (agent id, channel number, call id).
\* cost_per_interaction is round(total_cost / total_interactions, 2), held in
\* hundredths.
Cell(p, c, d, k) ==
    CASE c = date_col(p) -> d
      [] c = "date" -> d
      [] c = "month_name" -> "M"
      [] c = "agent_name" -> "A"
      [] c = "channel" -> IF k = 1 THEN "Phone" ELSE "Email"
      [] c = "agent_id" -> k
      [] c = "call_id" -> k
      [] c = "total_interactions" -> 100 * d[2] + 10 * d[3] + k
      [] c = "total_cost" -> 500 * d[2] + 50 * d[3]
      [] c = "cost_per_interaction" ->
            round2(500 * d[2] + 50 * d[3], 100 * d[2] + 10 * d[3] + k)
      [] c = "duration_minutes" -> 4

\* A file with the given columns and one row per entry <<date, k>> of keys.
MkFile(p, cs, keys) ==
    [exists |-> TRUE,
     cols |-> cs,
     rows |-> [i \in 1..Len(keys) |->
                 [c \in cs |-> Cell(p, c, keys[i][1], keys[i][2])]]]

-----------------------------------------------------------------------------
(* DataLoader *)

\* The columns load_<table>_data parses with pd.to_datetime; a parsed column
\* that is not in the file raises KeyError.
ParsedCols(p, t) == IF t = "calls" THEN {"date", date_col(p)} ELSE {date_col(p)}

parse_raises(file, p, t) == ~(ParsedCols(p, t) \subseteq file.cols)

\* pd.read_csv followed by the date parsing of load_<table>_data.
read_and_parse(file, p, t) ==
         [cols |-> file.cols,
          rows |-> [i \in 1..Len(file.rows) |->
                      [c \in file.cols |->
                         IF c \in ParsedCols(p, t)
                         THEN to_datetime(file.rows[i][c])
                         ELSE file.rows[i][c]]]]

cache_key(t, p) == <<t, p>>

\* load_data with the cache lookup left out: every call reads the file.
load_data_uncached(t, force_reload, p, dir, cch, stor, rd) ==
    LET key == cache_key(t, p)
        file == stor[dir][t]
    IN  IF ~file.exists
        THEN [outcome |-> "FileNotFoundError", value |-> NoDataFrame,
              cache |-> cch, read |-> FALSE]
        ELSE IF parse_raises(file, p, t)
        THEN [outcome |-> "KeyError", value |-> NoDataFrame,
              cache |-> cch, read |-> TRUE]
        ELSE LET df == [id |-> rd + 1, data |-> read_and_parse(file, p, t), dir |-> dir]
             IN  [outcome |-> "returned", value |-> df,
                  cache |-> (key :> df) @@ cch, read |-> TRUE]

\* load_data that answers a missing file with the stale cache entry, or with
\* an empty table, instead of raising.
load_data_missing_ok(t, force_reload, p, dir, cch, stor, rd) ==
    LET key == cache_key(t, p)
        file == stor[dir][t]
    IN  IF key \in DOMAIN cch /\ ~force_reload
        THEN [outcome |-> "returned", value |-> cch[key],
              cache |-> cch, read |-> FALSE]
        ELSE IF ~file.exists
        THEN [outcome |-> "returned",
              value |-> IF key \in DOMAIN cch THEN cch[key]
                        ELSE [id |-> rd + 1, data |-> [cols |-> {}, rows |-> <<>>],
                              dir |-> dir],
              cache |-> cch, read |-> FALSE]
        ELSE IF parse_raises(file, p, t)
        THEN [outcome |-> "KeyError", value |-> NoDataFrame,
              cache |-> cch, read |-> TRUE]
        ELSE LET df == [id |-> rd + 1, data |-> read_and_parse(file, p, t), dir |-> dir]
             IN  [outcome |-> "returned", value |-> df,
                  cache |-> (key :> df) @@ cch, read |-> TRUE]

\* load_data that keeps only the table it has just read in the cache.
load_data_evicting(t, force_reload, p, dir, cch, stor, rd) ==
    LET key == cache_key(t, p)
        file == stor[dir][t]
    IN  IF key \in DOMAIN cch /\ ~force_reload
        THEN [outcome |-> "returned", value |-> cch[key],
              cache |-> cch, read |-> FALSE]
        ELSE IF ~file.exists
        THEN [outcome |-> "FileNotFoundError", value |-> NoDataFrame,
              cache |-> cch, read |-> FALSE]
        ELSE IF parse_raises(file, p, t)
        THEN [outcome |-> "KeyError", value |-> NoDataFrame,
              cache |-> cch, read |-> TRUE]
        ELSE LET df == [id |-> rd + 1, data |-> read_and_parse(file, p, t), dir |-> dir]
             IN  [outcome |-> "returned", value |-> df,
                  cache |-> (key :> df), read |-> TRUE]

\* load_data that answers from the cache also when force_reload is set.
load_data_never_forced(t, force_reload, p, dir, cch, stor, rd) ==
    LET key == cache_key(t, p)
        file == stor[dir][t]
    IN  IF key \in DOMAIN cch
        THEN [outcome |-> "returned", value |-> cch[key],
              cache |-> cch, read |-> FALSE]
        ELSE IF ~file.exists
        THEN [outcome |-> "FileNotFoundError", value |-> NoDataFrame,
              cache |-> cch, read |-> FALSE]
        ELSE IF parse_raises(file, p, t)
        THEN [outcome |-> "KeyError", value |-> NoDataFrame,
              cache |-> cch, read |-> TRUE]
        ELSE LET df == [id |-> rd + 1, data |-> read_and_parse(file, p, t), dir |-> dir]
             IN  [outcome |-> "returned", value |-> df,
                  cache |-> (key :> df) @@ cch, read |-> TRUE]

\* load_data that drops the entry of the table when the file is missing.
load_data_drops_on_missing(t, force_reload, p, dir, cch, stor, rd) ==
    LET key == cache_key(t, p)
        file == stor[dir][t]
    IN  IF key \in DOMAIN cch /\ ~force_reload
        THEN [outcome |-> "returned", value |-> cch[key],
              cache |-> cch, read |-> FALSE]
        ELSE IF ~file.exists
        THEN [outcome |-> "FileNotFoundError", value |-> NoDataFrame,
              cache |-> [k \in DOMAIN cch \ {key} |-> cch[k]], read |-> FALSE]
        ELSE IF parse_raises(file, p, t)
        THEN [outcome |-> "KeyError", value |-> NoDataFrame,
              cache |-> cch, read |-> TRUE]
        ELSE LET df == [id |-> rd + 1, data |-> read_and_parse(file, p, t), dir |-> dir]
             IN  [outcome |-> "returned", value |-> df,
                  cache |-> (key :> df) @@ cch, read |-> TRUE]

\* load_<table>_data(force_reload) run on loader state (p, dir, cch) with rd
\* reads made so far: the outcome, the returned object, the cache afterwards
\* and whether read_csv ran.  A DataFrame object is [id, data, dir]: id tells
\* objects apart, dir is the directory it was read from.
load_data(t, force_reload, p, dir, cch, stor, rd) ==
    LET key == cache_key(t, p)
        file == stor[dir][t]
    IN  IF key \in DOMAIN cch /\ ~force_reload
        THEN [outcome |-> "returned", value |-> cch[key],
              cache |-> cch, read |-> FALSE]
        ELSE IF ~file.exists
        THEN [outcome |-> "FileNotFoundError", value |-> NoDataFrame,
              cache |-> cch, read |-> FALSE]
        ELSE IF parse_raises(file, p, t)
        THEN [outcome |-> "KeyError", value |-> NoDataFrame,
              cache |-> cch, read |-> TRUE]
        ELSE LET df == [id |-> rd + 1, data |-> read_and_parse(file, p, t), dir |-> dir]
             IN  [outcome |-> "returned", value |-> df,
                  cache |-> (key :> df) @@ cch, read |-> TRUE]

\* DataLoader.validate_data_integrity: "True", or the ValueError it raises.
required_columns(data_type) ==
    CASE data_type = "overall" -> {"total_interactions", "total_cost"}
      [] data_type = "agent" -> {"agent_id", "agent_name", "total_interactions"}
      [] data_type = "channel" -> {"channel", "total_interactions"}
      [] data_type = "calls" -> {"call_id", "agent_id", "date", "duration_minutes"}

validate_data_integrity(df, data_type) ==
    IF data_type \notin Tables THEN "ValueError"
    ELSE IF required_columns(data_type) \ df.cols # {} THEN "ValueError"
    ELSE IF Len(df.rows) = 0 THEN "ValueError"
    ELSE "True"

-----------------------------------------------------------------------------
(* The files of the loader specification *)

\* The rows the shipped files hold, and the rows after the producer ran again.
Keys1(p) == <<(<<FileDates(p)[1], 1>>)>>
Keys2(p) == <<(<<FileDates(p)[2], 1>>), (<<FileDates(p)[1], 2>>)>>

Good1(p, t) == MkFile(p, AllCols(p, t), Keys1(p))
Good2(p, t) == MkFile(p, AllCols(p, t), Keys2(p))
\* A file without the total_interactions / duration_minutes column.
NoRequired(p, t) ==
    MkFile(p, AllCols(p, t) \ {"total_interactions", "duration_minutes"}, Keys1(p))
\* A file that holds the header row only.
HeaderOnly(p, t) == MkFile(p, AllCols(p, t), <<>>)
\* A file without the period column.
NoDateCol(p, t) == MkFile(p, AllCols(p, t) \ {date_col(p)}, Keys1(p))

FileChoices(p, t) ==
    {Good1(p, t), Good2(p, t), NoRequired(p, t), HeaderOnly(p, t), NoDateCol(p, t), Missing}

-----------------------------------------------------------------------------
(* DataLoader operations *)

EmptyCache == <<>>

\* The objects a cache holds, by id, and the granularities of its keys
ObjectIds(cch) == {cch[k].id : k \in DOMAIN cch}
CachedPeriods(cch) == {k[2] : k \in DOMAIN cch}

\* DataLoader.__init__ on the shipped data files.
Init ==
    /\ period \in Periods
    /\ data_dir = period
    /\ cache = EmptyCache
    /\ storage = [g \in Periods |-> [t \in Tables |-> Good1(g, t)]]
    /\ reads = 0
    /\ writes = 0
    /\ last = [op |-> "init"]

\* load_overall_data / load_agent_data / load_channel_data / load_calls_data
Load(t, force_reload) ==
    LET r == load_data(t, force_reload, period, data_dir, cache, storage, reads)
        key == cache_key(t, period)
    IN  /\ r.read => reads < MaxReads
        /\ cache' = r.cache
        /\ reads' = IF r.read THEN reads + 1 ELSE reads
        /\ last' = [op |-> "load", after_clear |-> last.op = "clear_cache",
                    table |-> t, force_reload |-> force_reload,
                    outcome |-> r.outcome, value |-> r.value, read |-> r.read,
                    cached_before |-> key \in DOMAIN cache,
                    entry_before |-> IF key \in DOMAIN cache THEN cache[key] ELSE NoDataFrame,
                    file |-> storage[data_dir][t]]
        /\ UNCHANGED <<period, data_dir, storage, writes>>

\* clear_cache that leaves the entries in place.
ClearCacheKeeps ==
    /\ cache' = cache
    /\ last' = [op |-> "clear_cache", dropped |-> ObjectIds(cache)]
    /\ UNCHANGED <<period, data_dir, storage, reads, writes>>

\* DataLoader.clear_cache
ClearCache ==
    /\ cache' = EmptyCache
    /\ last' = [op |-> "clear_cache", dropped |-> ObjectIds(cache)]
    /\ UNCHANGED <<period, data_dir, storage, reads, writes>>

\* set_period without its call of clear_cache.
SetPeriodKeepsCache(g) ==
    /\ period' = g
    /\ data_dir' = g
    /\ cache' = cache
    /\ last' = [op |-> "set_period", period |-> g, dropped |-> CachedPeriods(cache)]
    /\ UNCHANGED <<storage, reads, writes>>

\* DataLoader.set_period
SetPeriod(g) ==
    /\ period' = g
    /\ data_dir' = g
    /\ cache' = EmptyCache
    /\ last' = [op |-> "set_period", period |-> g, dropped |-> CachedPeriods(cache)]
    /\ UNCHANGED <<storage, reads, writes>>

\* The data producer rewrites or removes one backing file.
WriteFile(g, t, f) ==
    /\ writes < MaxWrites
    /\ f # storage[g][t]
    /\ storage' = [storage EXCEPT ![g][t] = f]
    /\ writes' = writes + 1
    /\ UNCHANGED <<period, data_dir, cache, reads, last>>

Next ==
    \/ \E t \in Tables, force_reload \in BOOLEAN : Load(t, force_reload)
    \/ ClearCache
    \/ \E g \in Periods : SetPeriod(g)
    \/ \E g \in Periods, t \in Tables : \E f \in FileChoices(g, t) : WriteFile(g, t, f)

Spec == Init /\ [][Next]_vars

-----------------------------------------------------------------------------
(* pandas operations on columns and rows *)

Range(s) == {s[i] : i \in 1..Len(s)}

\* df[col]
column(df, col) == [i \in 1..Len(df.rows) |-> df.rows[i][col]]

\* df[cols]: KeyError is the caller's to check with cols \subseteq df.cols
project(df, cs) ==
    [cols |-> cs,
     rows |-> [i \in 1..Len(df.rows) |-> [c \in cs |-> df.rows[i][c]]]]

\* Series.sort_values(ascending): rows with equal keys keep their order
RECURSIVE series_sort_values(_, _)
series_sort_values(s, ascending) ==
    IF Len(s) <= 1 THEN s
    ELSE LET sorted == series_sort_values(SubSeq(s, 1, Len(s) - 1), ascending)
             x == s[Len(s)]
             n == Cardinality({i \in 1..Len(sorted) :
                                 IF ascending THEN sorted[i] <= x ELSE sorted[i] >= x})
         IN  SubSeq(sorted, 1, n) \o <<x>> \o SubSeq(sorted, n + 1, Len(sorted))

\* DataFrame.sort_values(col, ascending): the rows of a table, sorted
RECURSIVE sort_values(_, _, _)
sort_values(rows, col, ascending) ==
    IF Len(rows) <= 1 THEN rows
    ELSE LET sorted == sort_values(SubSeq(rows, 1, Len(rows) - 1), col, ascending)
             r == rows[Len(rows)]
             n == Cardinality({i \in 1..Len(sorted) :
                                 IF ascending THEN sorted[i][col] <= r[col]
                                 ELSE sorted[i][col] >= r[col]})
         IN  SubSeq(sorted, 1, n) \o <<r>> \o SubSeq(sorted, n + 1, Len(sorted))

\* Series.unique(): the values in order of first appearance
RECURSIVE unique(_)
unique(s) ==
    IF Len(s) = 0 THEN <<>>
    ELSE LET u == unique(SubSeq(s, 1, Len(s) - 1))
         IN  IF s[Len(s)] \in Range(u) THEN u ELSE Append(u, s[Len(s)])

\* Series.max(): NaT on an empty column
series_max(s) ==
    IF Len(s) = 0 THEN NaT
    ELSE CHOOSE x \in Range(s) : \A y \in Range(s) : y <= x

\* list.index(x), counted from 1; 0 stands for the ValueError it raises
list_index(s, x) ==
    IF x \in Range(s)
    THEN CHOOSE i \in 1..Len(s) : s[i] = x /\ \A j \in 1..(i - 1) : s[j] # x
    ELSE 0

\* df[df[col] == v]; no cell is NaT, so a comparison with NaT selects no row
rows_where(rows, col, v) == SelectSeq(rows, LAMBDA r : r[col] = v)

\* Series.nunique()
nunique(s) == Cardinality(Range(s))

\* dict.get(k, default)
dict_get(d, k, default) == IF k \in DOMAIN d THEN d[k] ELSE default

-----------------------------------------------------------------------------
(* Period resolver: DataLoader.get_periods, MonthlyReport, WeeklyReport *)

\* The columns get_periods selects
periods_cols(p) == IF p = "monthly" THEN {"month", "month_name"} ELSE {"week_start"}

\* DataLoader.get_periods on the loaded overall table: the selected columns,
\* rows sorted by period, most recent first
get_periods(overall_df, p) ==
    sort_values(project(overall_df, periods_cols(p)).rows, date_col(p), FALSE)

\* MonthlyReport.get_current_month / WeeklyReport.get_current_week
get_current(overall_df, p) == series_max(column(overall_df, date_col(p)))

\* get_previous that scans the periods in row order, without sorting them.
get_previous_unsorted(overall_df, p, current) ==
    LET months == unique(column(overall_df, date_col(p)))
        current_idx == list_index(months, current)
    IN  IF current_idx = 0
        THEN [outcome |-> "ValueError", value |-> None]
        ELSE IF current_idx + 1 <= Len(months)
        THEN [outcome |-> "returned", value |-> months[current_idx + 1]]
        ELSE [outcome |-> "returned", value |-> None]

\* MonthlyReport.get_previous_month / WeeklyReport.get_previous_week:
\* the period returned, None, or the ValueError of list.index
get_previous(overall_df, p, current) ==
    LET months == unique(series_sort_values(column(overall_df, date_col(p)), FALSE))
        current_idx == list_index(months, current)
    IN  IF current_idx = 0
        THEN [outcome |-> "ValueError", value |-> None]
        ELSE IF current_idx + 1 <= Len(months)
        THEN [outcome |-> "returned", value |-> months[current_idx + 1]]
        ELSE [outcome |-> "returned", value |-> None]

-----------------------------------------------------------------------------
(* Metric aggregator: MetricLoader *)

EmptyDict == <<>>
NoChannel == "None"

\* MetricLoader.get_overall_metrics on the loaded overall table: the row of
\* the period as a dict, {} when the period has no row, or IndexError when no
\* period is given and the table is empty
get_overall_metrics(overall_df, p, period_date) ==
    IF period_date # None
    THEN LET row == rows_where(overall_df.rows, date_col(p), normalize(period_date))
         IN  IF Len(row) = 0
             THEN [outcome |-> "returned", value |-> EmptyDict]
             ELSE [outcome |-> "returned", value |-> row[1]]
    ELSE LET sorted == sort_values(overall_df.rows, date_col(p), FALSE)
         IN  IF Len(sorted) = 0
             THEN [outcome |-> "IndexError", value |-> EmptyDict]
             ELSE [outcome |-> "returned", value |-> sorted[1]]

\* The period filter shared by get_agent_metrics and get_channel_metrics
period_rows(df, p, period_date) ==
    IF period_date # None
    THEN rows_where(df.rows, date_col(p), normalize(period_date))
    ELSE rows_where(df.rows, date_col(p), series_max(column(df, date_col(p))))

\* get_agent_metrics without the filter on agent_id
get_agent_metrics_any_agent(agent_df, p, period_date, agent_id) ==
    period_rows(agent_df, p, period_date)

\* MetricLoader.get_agent_metrics on the loaded agent table
get_agent_metrics(agent_df, p, period_date, agent_id) ==
    LET rows == period_rows(agent_df, p, period_date)
    IN  IF agent_id # None THEN rows_where(rows, "agent_id", agent_id) ELSE rows

\* MetricLoader.get_channel_metrics on the loaded channel table
get_channel_metrics(channel_df, p, period_date, channel) ==
    LET rows == period_rows(channel_df, p, period_date)
    IN  IF channel # NoChannel THEN rows_where(rows, "channel", channel) ELSE rows

\* The snapshot calculate_productivity_metrics builds from the overall dict
\* and the agent rows.  interactions_per_agent is held in hundredths, and
\* so is cost_per_interaction, as it is in the rows.
ZeroSnapshot ==
    [k \in {"total_interactions", "avg_handle_time", "avg_wait_time",
            "first_call_resolution_rate", "customer_satisfaction_score",
            "total_cost", "cost_per_interaction", "unique_agents",
            "interactions_per_agent"} |-> 0]

\* The snapshot built without the test for an empty overall dict
productivity_snapshot_unguarded(overall, agent_rows) ==
    LET unique_agents ==
            IF Len(agent_rows) # 0
            THEN nunique([i \in 1..Len(agent_rows) |-> agent_rows[i]["agent_id"]])
            ELSE 0
    IN  [k \in {"total_interactions", "avg_handle_time", "avg_wait_time",
                "first_call_resolution_rate", "customer_satisfaction_score",
                "total_cost", "cost_per_interaction", "unique_agents",
                "interactions_per_agent"} |->
           CASE k = "unique_agents" -> unique_agents
             [] OTHER -> dict_get(overall, k, 0)]

\* The snapshot counting the agent rows instead of the distinct agent ids
productivity_snapshot_row_count(overall, agent_rows) ==
    IF DOMAIN overall = {}
    THEN ZeroSnapshot
    ELSE LET unique_agents == Len(agent_rows)
             interactions_per_agent ==
                 IF unique_agents > 0
                 THEN round2(dict_get(overall, "total_interactions", 0), unique_agents)
                 ELSE 0
         IN  [k \in {"total_interactions", "total_calls", "total_emails", "total_chats",
                     "total_whatsapp", "avg_handle_time", "avg_wait_time",
                     "first_call_resolution_rate", "customer_satisfaction_score",
                     "total_cost", "cost_per_interaction", "unique_agents",
                     "interactions_per_agent"} |->
                CASE k = "avg_handle_time" -> dict_get(overall, "avg_handle_time_minutes", 0)
                  [] k = "avg_wait_time" -> dict_get(overall, "avg_wait_time_minutes", 0)
                  [] k = "unique_agents" -> unique_agents
                  [] k = "interactions_per_agent" -> interactions_per_agent
                  [] OTHER -> dict_get(overall, k, 0)]

\* The snapshot reporting the total cost as the cost per interaction
productivity_snapshot_total_as_unit_cost(overall, agent_rows) ==
    IF DOMAIN overall = {}
    THEN ZeroSnapshot
    ELSE LET unique_agents ==
                 IF Len(agent_rows) # 0
                 THEN nunique([i \in 1..Len(agent_rows) |-> agent_rows[i]["agent_id"]])
                 ELSE 0
             interactions_per_agent ==
                 IF unique_agents > 0
                 THEN round2(dict_get(overall, "total_interactions", 0), unique_agents)
                 ELSE 0
         IN  [k \in {"total_interactions", "total_calls", "total_emails", "total_chats",
                     "total_whatsapp", "avg_handle_time", "avg_wait_time",
                     "first_call_resolution_rate", "customer_satisfaction_score",
                     "total_cost", "cost_per_interaction", "unique_agents",
                     "interactions_per_agent"} |->
                CASE k = "avg_handle_time" -> dict_get(overall, "avg_handle_time_minutes", 0)
                  [] k = "avg_wait_time" -> dict_get(overall, "avg_wait_time_minutes", 0)
                  [] k = "unique_agents" -> unique_agents
                  [] k = "interactions_per_agent" -> interactions_per_agent
                  [] k = "cost_per_interaction" -> 100 * dict_get(overall, "total_cost", 0)
                  [] OTHER -> dict_get(overall, k, 0)]

productivity_snapshot(overall, agent_rows) ==
    IF DOMAIN overall = {}
    THEN ZeroSnapshot
    ELSE LET unique_agents ==
                 IF Len(agent_rows) # 0
                 THEN nunique([i \in 1..Len(agent_rows) |-> agent_rows[i]["agent_id"]])
                 ELSE 0
             interactions_per_agent ==
                 IF unique_agents > 0
                 THEN round2(dict_get(overall, "total_interactions", 0), unique_agents)
                 ELSE 0
         IN  [k \in {"total_interactions", "total_calls", "total_emails", "total_chats",
                     "total_whatsapp", "avg_handle_time", "avg_wait_time",
                     "first_call_resolution_rate", "customer_satisfaction_score",
                     "total_cost", "cost_per_interaction", "unique_agents",
                     "interactions_per_agent"} |->
                CASE k = "avg_handle_time" -> dict_get(overall, "avg_handle_time_minutes", 0)
                  [] k = "avg_wait_time" -> dict_get(overall, "avg_wait_time_minutes", 0)
                  [] k = "unique_agents" -> unique_agents
                  [] k = "interactions_per_agent" -> interactions_per_agent
                  [] OTHER -> dict_get(overall, k, 0)]

\* DataFrame.head(n) for n >= 0
head(rows, n) == SubSeq(rows, 1, IF n < Len(rows) THEN n ELSE Len(rows))

\* get_trend_data that selects the period column alone when the metric is
\* not a column
get_trend_data_any_metric(overall_df, p, metric_name, num_periods) ==
    LET newest == head(sort_values(overall_df.rows, date_col(p), FALSE), num_periods)
        sorted == sort_values(newest, date_col(p), TRUE)
    IN  project([cols |-> overall_df.cols, rows |-> sorted],
                {date_col(p), metric_name} \cap overall_df.cols).rows

\* MetricLoader.get_trend_data on the loaded overall table: the rows of the
\* returned frame, none when the metric is not a column
get_trend_data(overall_df, p, metric_name, num_periods) ==
    IF metric_name \notin overall_df.cols
    THEN <<>>
    ELSE LET newest == head(sort_values(overall_df.rows, date_col(p), FALSE), num_periods)
             sorted == sort_values(newest, date_col(p), TRUE)
         IN  project([cols |-> overall_df.cols, rows |-> sorted],
                     {date_col(p), metric_name}).rows

-----------------------------------------------------------------------------
(* Delta calculator: MetricLoader.calculate_deltas *)

\* The values of a metrics dict: numbers (int or float), here integers, and
\* values that are not numbers (a month name, None)
Number(n) == [num |-> TRUE, v |-> n]
NotANumber == [num |-> FALSE, v |-> 0]

\* isinstance(x, (int, float))
isinstance_number(x) == x.num

\* round(num / den, 2) of the percentage for den # 0, num and den of either
\* sign, in hundredths when num is given in hundredths (ties to even)
round_ratio(num, den) ==
    LET n == IF den < 0 THEN 0 - num ELSE num
        d == IF den < 0 THEN 0 - den ELSE den
        q == n \div d
        r == n % d
    IN  IF 2 * r > d \/ (2 * r = d /\ q % 2 = 1) THEN q + 1 ELSE q

\* calculate_deltas subtracting the current value from the previous one
calculate_deltas_reversed(current_metrics, previous_metrics) ==
    LET previous_val(k) == dict_get(previous_metrics, k, Number(0))
        kept == {k \in DOMAIN current_metrics :
                   /\ isinstance_number(current_metrics[k])
                   /\ isinstance_number(previous_val(k))}
    IN  [k \in kept |->
           LET c == current_metrics[k].v
               p == previous_val(k).v
               delta == p - c
           IN  IF p # 0
               THEN [value |-> delta,
                     percentage |-> round_ratio(10000 * delta, p),
                     trend |-> IF delta > 0 THEN "up"
                               ELSE IF delta < 0 THEN "down" ELSE "flat"]
               ELSE [value |-> c, percentage |-> 0, trend |-> "flat"]]

\* calculate_deltas taking the trend of the current value when the previous
\* value is 0
calculate_deltas_zero_trend(current_metrics, previous_metrics) ==
    LET previous_val(k) == dict_get(previous_metrics, k, Number(0))
        kept == {k \in DOMAIN current_metrics :
                   /\ isinstance_number(current_metrics[k])
                   /\ isinstance_number(previous_val(k))}
    IN  [k \in kept |->
           LET c == current_metrics[k].v
               p == previous_val(k).v
               delta == c - p
           IN  [value |-> delta,
                percentage |-> IF p # 0 THEN round_ratio(10000 * delta, p) ELSE 0,
                trend |-> IF delta > 0 THEN "up"
                          ELSE IF delta < 0 THEN "down" ELSE "flat"]]

\* calculate_deltas skipping the keys the previous dict does not have
calculate_deltas_shared_keys(current_metrics, previous_metrics) ==
    LET kept == {k \in DOMAIN current_metrics \cap DOMAIN previous_metrics :
                   /\ isinstance_number(current_metrics[k])
                   /\ isinstance_number(previous_metrics[k])}
    IN  [k \in kept |->
           LET c == current_metrics[k].v
               p == previous_metrics[k].v
               delta == c - p
           IN  IF p # 0
               THEN [value |-> delta,
                     percentage |-> round_ratio(10000 * delta, p),
                     trend |-> IF delta > 0 THEN "up"
                               ELSE IF delta < 0 THEN "down" ELSE "flat"]
               ELSE [value |-> c, percentage |-> 0, trend |-> "flat"]]

\* calculate_deltas taking the branch of a previous value of 0 for every key
calculate_deltas_always_flat(current_metrics, previous_metrics) ==
    LET previous_val(k) == dict_get(previous_metrics, k, Number(0))
        kept == {k \in DOMAIN current_metrics :
                   /\ isinstance_number(current_metrics[k])
                   /\ isinstance_number(previous_val(k))}
    IN  [k \in kept |->
           [value |-> current_metrics[k].v, percentage |-> 0, trend |-> "flat"]]

\* MetricLoader.calculate_deltas: one entry per key of current_metrics whose
\* current and previous values are numbers, the previous value of a key that
\* previous_metrics lacks being 0.  percentage is held in hundredths.
calculate_deltas(current_metrics, previous_metrics) ==
    LET previous_val(k) == dict_get(previous_metrics, k, Number(0))
        kept == {k \in DOMAIN current_metrics :
                   /\ isinstance_number(current_metrics[k])
                   /\ isinstance_number(previous_val(k))}
    IN  [k \in kept |->
           LET c == current_metrics[k].v
               p == previous_val(k).v
               delta == c - p
           IN  IF p # 0
               THEN [value |-> delta,
                     percentage |-> round_ratio(10000 * delta, p),
                     trend |-> IF delta > 0 THEN "up"
                               ELSE IF delta < 0 THEN "down" ELSE "flat"]
               ELSE [value |-> c, percentage |-> 0, trend |-> "flat"]]

-----------------------------------------------------------------------------
(* The files of the report specification *)

DateSet(p) == Range(FileDates(p))
AgentDates(p) == {FileDates(p)[1], FileDates(p)[2]}
AgentIds == {1, 2}

SeqsUpTo(S, n) == UNION {[1..k -> S] : k \in 0..n}

\* Overall files: up to MaxRows rows in any order, periods repeated or not;
\* the row number tells rows of one period apart.
OverallFiles(p) ==
    {MkFile(p, AllCols(p, "overall"), [i \in 1..Len(ds) |-> <<ds[i], i>>]) :
        ds \in SeqsUpTo(DateSet(p), MaxRows)}

AgentFiles(p) ==
    {MkFile(p, AllCols(p, "agent"), keys) :
        keys \in SeqsUpTo(AgentDates(p) \X AgentIds, MaxAgentRows)}

ChannelFiles(p) ==
    {MkFile(p, AllCols(p, "channel"), keys) :
        keys \in SeqsUpTo(AgentDates(p) \X {1, 2}, MaxChannelRows)}

\* Agent files of one team: up to MaxTeamRows rows of the second period, the
\* agent ids repeated or not.
TeamIds == 1..MaxTeamRows

TeamFiles(p) ==
    {MkFile(p, AllCols(p, "agent"), [i \in 1..Len(ids) |-> <<FileDates(p)[2], ids[i]>>]) :
        ids \in SeqsUpTo(TeamIds, MaxTeamRows)}

\* The period arguments of the calls: the midnights of the calendar dates and
\* one timestamp later in the first day.
ArgPeriods(p) == {to_datetime(d) : d \in DateSet(p)} \cup {to_datetime(FileDates(p)[1]) + 1}

Channels == {"Phone", "Email"}

-----------------------------------------------------------------------------
(* Report operations.  A behaviour of ReportSpec is MonthlyReport() or         *)
(* WeeklyReport() constructed on drawn files, followed by one call.          *)

InitReport ==
    /\ period \in Periods
    /\ data_dir = period
    /\ cache = EmptyCache
    /\ reads = 0
    /\ writes = 0
    /\ last = [op |-> "init"]
    /\ \/ \E ov \in OverallFiles(period), ag \in AgentFiles(period) :
             storage = [g \in Periods |-> [t \in Tables |->
                          IF g # period THEN Good1(g, t)
                          ELSE IF t = "overall" THEN ov
                          ELSE IF t = "agent" THEN ag
                          ELSE Good1(g, t)]]
       \/ \E ch \in ChannelFiles(period) :
             storage = [g \in Periods |-> [t \in Tables |->
                          IF g = period /\ t = "channel" THEN ch ELSE Good1(g, t)]]
       \/ \E ov \in {f \in OverallFiles(period) : Len(f.rows) <= 1},
             tm \in TeamFiles(period) :
             storage = [g \in Periods |-> [t \in Tables |->
                          IF g # period THEN Good1(g, t)
                          ELSE IF t = "overall" THEN ov
                          ELSE IF t = "agent" THEN tm
                          ELSE Good1(g, t)]]

\* The loader state after the loads of one call, the last of them being r
Loaded(r, n) ==
    /\ cache' = r.cache
    /\ reads' = reads + n
    /\ UNCHANGED <<period, data_dir, storage, writes>>

Count(r) == IF r.read THEN 1 ELSE 0

LoadOverall == load_data("overall", FALSE, period, data_dir, cache, storage, reads)
LoadAgent == load_data("agent", FALSE, period, data_dir, cache, storage, reads)
LoadChannel == load_data("channel", FALSE, period, data_dir, cache, storage, reads)

\* MonthlyReport.get_available_months / WeeklyReport.get_available_weeks
\* (MetricLoader.get_available_periods, DataLoader.get_periods)
GetAvailablePeriods ==
    /\ last.op = "init"
    /\ LET r == LoadOverall
       IN  /\ Loaded(r, Count(r))
           /\ last' = IF r.outcome # "returned"
                      THEN [op |-> "get_available_periods", outcome |-> r.outcome]
                      ELSE IF ~(periods_cols(period) \subseteq r.value.data.cols)
                      THEN [op |-> "get_available_periods", outcome |-> "KeyError"]
                      ELSE [op |-> "get_available_periods", outcome |-> "returned",
                            value |-> get_periods(r.value.data, period)]

\* MonthlyReport.get_current_month / WeeklyReport.get_current_week
GetCurrent ==
    /\ last.op = "init"
    /\ LET r == LoadOverall
       IN  /\ Loaded(r, Count(r))
           /\ last' = IF r.outcome # "returned"
                      THEN [op |-> "get_current", outcome |-> r.outcome]
                      ELSE [op |-> "get_current", outcome |-> "returned",
                            value |-> get_current(r.value.data, period)]

\* MonthlyReport.get_previous_month / WeeklyReport.get_previous_week
GetPrevious(current) ==
    /\ last.op = "init"
    /\ LET r == LoadOverall
       IN  /\ Loaded(r, Count(r))
           /\ last' = IF r.outcome # "returned"
                      THEN [op |-> "get_previous", current |-> current, outcome |-> r.outcome]
                      ELSE LET prev == get_previous(r.value.data, period, current)
                           IN  [op |-> "get_previous", current |-> current,
                                outcome |-> prev.outcome, value |-> prev.value]

\* The period selector of MonthlyTab.render / WeeklyTab.render: the current
\* period, its previous period, then the periods on offer
RenderSelector ==
    /\ last.op = "init"
    /\ LET r == LoadOverall
       IN  /\ Loaded(r, Count(r))
           /\ last' = IF r.outcome # "returned"
                      THEN [op |-> "render_selector", outcome |-> r.outcome]
                      ELSE LET current == get_current(r.value.data, period)
                               prev == get_previous(r.value.data, period, current)
                           IN  IF prev.outcome # "returned"
                               THEN [op |-> "render_selector", outcome |-> prev.outcome]
                               ELSE [op |-> "render_selector", outcome |-> "returned",
                                     current |-> current, previous |-> prev.value,
                                     available |-> get_periods(r.value.data, period)]

\* MetricLoader.get_overall_metrics
GetOverallMetrics(period_date) ==
    /\ last.op = "init"
    /\ LET r == LoadOverall
       IN  /\ Loaded(r, Count(r))
           /\ last' = IF r.outcome # "returned"
                      THEN [op |-> "get_overall_metrics", period_date |-> period_date,
                            outcome |-> r.outcome]
                      ELSE LET ov == get_overall_metrics(r.value.data, period, period_date)
                           IN  [op |-> "get_overall_metrics", period_date |-> period_date,
                                outcome |-> ov.outcome, value |-> ov.value]

\* MetricLoader.get_agent_metrics
GetAgentMetrics(period_date, agent_id) ==
    /\ last.op = "init"
    /\ LET r == LoadAgent
       IN  /\ Loaded(r, Count(r))
           /\ last' = IF r.outcome # "returned"
                      THEN [op |-> "get_agent_metrics", period_date |-> period_date,
                            agent_id |-> agent_id, outcome |-> r.outcome]
                      ELSE [op |-> "get_agent_metrics", period_date |-> period_date,
                            agent_id |-> agent_id, outcome |-> "returned",
                            value |-> get_agent_metrics(r.value.data, period,
                                                        period_date, agent_id)]

\* MetricLoader.get_channel_metrics
GetChannelMetrics(period_date, channel) ==
    /\ last.op = "init"
    /\ LET r == LoadChannel
       IN  /\ Loaded(r, Count(r))
           /\ last' = IF r.outcome # "returned"
                      THEN [op |-> "get_channel_metrics", period_date |-> period_date,
                            channel |-> channel, outcome |-> r.outcome]
                      ELSE [op |-> "get_channel_metrics", period_date |-> period_date,
                            channel |-> channel, outcome |-> "returned",
                            value |-> get_channel_metrics(r.value.data, period,
                                                          period_date, channel)]

\* MetricLoader.calculate_productivity_metrics: get_overall_metrics, then
\* get_agent_metrics, then the snapshot.  overall and agent_rows record the
\* dict and the rows the snapshot was built from.
CalculateProductivityMetrics(period_date) ==
    /\ last.op = "init"
    /\ LET r1 == LoadOverall
           ov == get_overall_metrics(r1.value.data, period, period_date)
           r2 == load_data("agent", FALSE, period, data_dir, r1.cache, storage,
                           reads + Count(r1))
           agent_rows == get_agent_metrics(r2.value.data, period, period_date, None)
           op == [op |-> "calculate_productivity_metrics", period_date |-> period_date]
       IN  IF r1.outcome # "returned"
           THEN /\ Loaded(r1, Count(r1))
                /\ last' = op @@ [outcome |-> r1.outcome]
           ELSE IF ov.outcome # "returned"
           THEN /\ Loaded(r1, Count(r1))
                /\ last' = op @@ [outcome |-> ov.outcome]
           ELSE IF r2.outcome # "returned"
           THEN /\ Loaded(r2, Count(r1) + Count(r2))
                /\ last' = op @@ [outcome |-> r2.outcome]
           ELSE /\ Loaded(r2, Count(r1) + Count(r2))
                /\ last' = op @@ [outcome |-> "returned",
                                  overall |-> ov.value, agent_rows |-> agent_rows,
                                  value |-> productivity_snapshot(ov.value, agent_rows)]

\* Series.dt.strftime("%b %d %Y") of a timestamp: the label of its day
strftime(ts) == <<"%b %d %Y", ts \div TicksPerDay>>

\* agent_df["week_label"] = agent_df["week_start"].dt.strftime(...): the
\* table with the column week_label added or overwritten
with_week_label(df) ==
    [cols |-> df.cols \cup {"week_label"},
     rows |-> [i \in 1..Len(df.rows) |->
                 [c \in df.cols \cup {"week_label"} |->
                    IF c = "week_label" THEN strftime(df.rows[i]["week_start"])
                    ELSE df.rows[i][c]]]]

\* AgentContent.render up to its filters, which work on new tables: the
\* agent table is loaded, and for a weekly report with agent rows the column
\* week_label is assigned on the loaded object, which is the cached one.  An
\* exception of the load is caught and shown.
RenderAgentContent ==
    /\ last.op = "init"
    /\ LET r == LoadAgent
           key == cache_key("agent", period)
       IN  /\ reads' = reads + Count(r)
           /\ cache' = IF r.outcome = "returned" /\ Len(r.value.data.rows) # 0
                          /\ period = "weekly"
                       THEN [r.cache EXCEPT ![key].data = with_week_label(@)]
                       ELSE r.cache
           /\ last' = [op |-> "render_agent_content",
                       outcome |-> IF r.outcome # "returned" THEN "error shown"
                                   ELSE IF Len(r.value.data.rows) = 0 THEN "warning shown"
                                   ELSE "rendered"]
    /\ UNCHANGED <<period, data_dir, storage, writes>>

\* The metric names and period counts of the trend calls
MetricNames == {"total_interactions", "total_cost", "avg_handle_time_minutes"}
NumPeriods == 0..(MaxRows + 1)

\* MetricLoader.get_trend_data (MonthlyReport / WeeklyReport.get_trend_data)
GetTrendData(metric_name, num_periods) ==
    /\ last.op = "init"
    /\ LET r == LoadOverall
           op == [op |-> "get_trend_data", metric_name |-> metric_name,
                  num_periods |-> num_periods]
       IN  /\ Loaded(r, Count(r))
           /\ last' = IF r.outcome # "returned"
                      THEN op @@ [outcome |-> r.outcome]
                      ELSE op @@ [outcome |-> "returned",
                                  value |-> get_trend_data(r.value.data, period,
                                                           metric_name, num_periods)]

\* A walk back through the periods, first call: get_current_month() /
\* get_current_week()
StartWalk ==
    /\ last.op = "init"
    /\ LET r == LoadOverall
       IN  /\ Loaded(r, Count(r))
           /\ last' = IF r.outcome # "returned"
                      THEN [op |-> "walk", outcome |-> r.outcome, value |-> None,
                            visited |-> <<>>, steps |-> 0]
                      ELSE LET current == get_current(r.value.data, period)
                           IN  [op |-> "walk", outcome |-> "returned", value |-> current,
                                visited |-> <<current>>, steps |-> 0]

\* A walk back through the periods, next call: get_previous_month /
\* get_previous_week applied to the result of the call before, until a call
\* returns None or raises
StepWalk ==
    /\ last.op = "walk"
    /\ last.outcome = "returned"
    /\ last.value # None
    /\ LET r == LoadOverall
       IN  /\ Loaded(r, Count(r))
           /\ last' = IF r.outcome # "returned"
                      THEN [last EXCEPT !.outcome = r.outcome, !.value = None,
                                        !.steps = @ + 1]
                      ELSE LET prev == get_previous(r.value.data, period, last.value)
                           IN  [last EXCEPT !.outcome = prev.outcome,
                                            !.value = prev.value,
                                            !.steps = @ + 1,
                                            !.visited = IF prev.outcome = "returned"
                                                           /\ prev.value # None
                                                        THEN Append(@, prev.value)
                                                        ELSE @]

\* The values of a snapshot as calculate_deltas tests them: every field of
\* the dict is a Python number (the cells of the row boxed by to_dict(), the
\* count of nunique(), the result of round() and the literal 0)
as_metrics(snapshot) == [k \in DOMAIN snapshot |-> Number(snapshot[k])]

\* The tab flow that takes the previous snapshot whether or not a previous
\* period was found: get_productivity_metrics(None) is the snapshot of the
\* most recent period.
TabFlowAlwaysCompares(selected) ==
    /\ last.op = "init"
    /\ LET r1 == LoadOverall
           prev == get_previous(r1.value.data, period, selected)
           ov == get_overall_metrics(r1.value.data, period, selected)
           r2 == load_data("agent", FALSE, period, data_dir, r1.cache, storage,
                           reads + Count(r1))
           current_metrics ==
               as_metrics(productivity_snapshot(
                   ov.value, get_agent_metrics(r2.value.data, period, selected, None)))
           pov == get_overall_metrics(r1.value.data, period, prev.value)
           previous_metrics ==
               as_metrics(productivity_snapshot(
                   pov.value, get_agent_metrics(r2.value.data, period, prev.value, None)))
           op == [op |-> "tab", selected |-> selected]
       IN  IF r1.outcome # "returned"
           THEN /\ Loaded(r1, Count(r1))
                /\ last' = op @@ [outcome |-> r1.outcome]
           ELSE IF prev.outcome # "returned"
           THEN /\ Loaded(r1, Count(r1))
                /\ last' = op @@ [outcome |-> prev.outcome]
           ELSE IF r2.outcome # "returned"
           THEN /\ Loaded(r2, Count(r1) + Count(r2))
                /\ last' = op @@ [outcome |-> r2.outcome]
           ELSE IF pov.outcome # "returned"
           THEN /\ Loaded(r2, Count(r1) + Count(r2))
                /\ last' = op @@ [outcome |-> pov.outcome]
           ELSE /\ Loaded(r2, Count(r1) + Count(r2))
                /\ last' = op @@ [outcome |-> "returned",
                                  prev |-> prev.value,
                                  current_metrics |-> current_metrics,
                                  previous_metrics |-> previous_metrics,
                                  deltas |-> calculate_deltas(current_metrics,
                                                              previous_metrics)]

\* MonthlyTab.render / WeeklyTab.render from the selected period on: the
\* previous period, the snapshot of the selected period, the snapshot of the
\* previous period or {} when there is none, then the deltas.  The tables are
\* loaded by the first call that needs them and come from the cache after.
TabFlow(selected) ==
    /\ last.op = "init"
    /\ LET r1 == LoadOverall
           prev == get_previous(r1.value.data, period, selected)
           ov == get_overall_metrics(r1.value.data, period, selected)
           r2 == load_data("agent", FALSE, period, data_dir, r1.cache, storage,
                           reads + Count(r1))
           current_metrics ==
               as_metrics(productivity_snapshot(
                   ov.value, get_agent_metrics(r2.value.data, period, selected, None)))
           pov == get_overall_metrics(r1.value.data, period, prev.value)
           previous_metrics ==
               IF prev.value # None
               THEN as_metrics(productivity_snapshot(
                        pov.value,
                        get_agent_metrics(r2.value.data, period, prev.value, None)))
               ELSE EmptyDict
           op == [op |-> "tab", selected |-> selected]
       IN  IF r1.outcome # "returned"
           THEN /\ Loaded(r1, Count(r1))
                /\ last' = op @@ [outcome |-> r1.outcome]
           ELSE IF prev.outcome # "returned"
           THEN /\ Loaded(r1, Count(r1))
                /\ last' = op @@ [outcome |-> prev.outcome]
           ELSE IF r2.outcome # "returned"
           THEN /\ Loaded(r2, Count(r1) + Count(r2))
                /\ last' = op @@ [outcome |-> r2.outcome]
           ELSE /\ Loaded(r2, Count(r1) + Count(r2))
                /\ last' = op @@ [outcome |-> "returned",
                                  prev |-> prev.value,
                                  current_metrics |-> current_metrics,
                                  previous_metrics |-> previous_metrics,
                                  deltas |-> calculate_deltas(current_metrics,
                                                              previous_metrics)]

NextReport ==
    \/ GetAvailablePeriods
    \/ GetCurrent
    \/ \E current \in ArgPeriods(period) : GetPrevious(current)
    \/ RenderSelector
    \/ \E period_date \in ArgPeriods(period) \cup {None} : GetOverallMetrics(period_date)
    \/ \E period_date \in ArgPeriods(period) \cup {None}, agent_id \in AgentIds \cup {None} :
          GetAgentMetrics(period_date, agent_id)
    \/ \E period_date \in ArgPeriods(period) \cup {None}, channel \in Channels \cup {NoChannel} :
          GetChannelMetrics(period_date, channel)
    \/ \E period_date \in ArgPeriods(period) \cup {None} :
          CalculateProductivityMetrics(period_date)
    \/ \E metric_name \in MetricNames, num_periods \in NumPeriods :
          GetTrendData(metric_name, num_periods)
    \/ RenderAgentContent
    \/ StartWalk
    \/ StepWalk
    \/ \E selected \in ArgPeriods(period) : TabFlow(selected)

ReportSpec == InitReport /\ [][NextReport]_vars

-----------------------------------------------------------------------------
(* Delta specification.  A behaviour of DeltaSpec is a report that calls    *)
(* calculate_deltas on one drawn pair of metrics dicts up to MaxCalls times, *)
(* the loader being used and reset between the calls.                       *)

DeltaKeys == {"total_interactions", "total_cost"}
DeltaNumbers == {-3, 0, 3, 5, 1000, 1100, 5000, 5500}
DeltaValues == {Number(n) : n \in DeltaNumbers} \cup {NotANumber}

\* The dicts over some of the keys
Dicts(K, V) == UNION {[S -> V] : S \in SUBSET K}

\* The numbers drawn for one key, and the dicts drawn for the calls
NumbersOf(k) ==
    IF k = "total_interactions" THEN {0, 1000, 1100} ELSE DeltaNumbers \ {1000, 1100}

MetricsDicts ==
    {d \in Dicts(DeltaKeys, DeltaValues) :
        \A k \in DOMAIN d : d[k].num => d[k].v \in NumbersOf(k)}

\* What a caller of the loader can tell of it: granularity and cached keys
Store == [period |-> period, cached |-> DOMAIN cache]

InitDeltas ==
    /\ period = "monthly"
    /\ data_dir = period
    /\ cache = EmptyCache
    /\ storage = [g \in Periods |-> [t \in Tables |-> Good1(g, t)]]
    /\ reads = 0
    /\ writes = 0
    /\ \E c \in MetricsDicts, p \in MetricsDicts :
          last = [op |-> "init", calls |-> 0,
                  current_metrics |-> c, previous_metrics |-> p]

\* calculate_deltas preceded by a load of the overall table, as the other
\* methods of MetricLoader are
CalculateDeltasWithLoad ==
    /\ last.calls < MaxCalls
    /\ LET r == LoadOverall
       IN  /\ cache' = r.cache
           /\ reads' = reads + Count(r)
    /\ last' = [op |-> "calculate_deltas", calls |-> last.calls + 1,
                current_metrics |-> last.current_metrics,
                previous_metrics |-> last.previous_metrics,
                outcome |-> "returned",
                value |-> calculate_deltas(last.current_metrics, last.previous_metrics),
                store |-> Store,
                store_before |-> IF last.op = "init" THEN Store ELSE last.store]
    /\ UNCHANGED <<period, data_dir, storage, writes>>

\* MetricLoader.calculate_deltas (MonthlyReport / WeeklyReport.get_deltas).
\* The dicts are read with get and by iteration and are left as they were;
\* store and store_before record the loader at this call and at the call
\* before it.
CalculateDeltas ==
    /\ last.calls < MaxCalls
    /\ last' = [op |-> "calculate_deltas", calls |-> last.calls + 1,
                current_metrics |-> last.current_metrics,
                previous_metrics |-> last.previous_metrics,
                outcome |-> "returned",
                value |-> calculate_deltas(last.current_metrics, last.previous_metrics),
                store |-> Store,
                store_before |-> IF last.op = "init" THEN Store ELSE last.store]
    /\ UNCHANGED <<period, data_dir, cache, storage, reads, writes>>

\* load_overall_data between the calls (get_overall_metrics and the like)
LoadBetweenCalls ==
    LET r == LoadOverall
    IN  /\ r.read => reads < MaxReads
        /\ cache' = r.cache
        /\ reads' = reads + Count(r)
        /\ UNCHANGED <<period, data_dir, storage, writes, last>>

\* MonthlyReport.refresh_data / WeeklyReport.refresh_data between the calls
RefreshData ==
    /\ cache' = EmptyCache
    /\ UNCHANGED <<period, data_dir, storage, reads, writes, last>>

\* DataLoader.set_period between the calls
SetPeriodBetweenCalls(g) ==
    /\ period' = g
    /\ data_dir' = g
    /\ cache' = EmptyCache
    /\ UNCHANGED <<storage, reads, writes, last>>

NextDeltas ==
    \/ CalculateDeltas
    \/ LoadBetweenCalls
    \/ RefreshData
    \/ \E g \in Periods : SetPeriodBetweenCalls(g)

DeltaSpec == InitDeltas /\ [][NextDeltas]_vars

-----------------------------------------------------------------------------
(* Thread specification.  One DataLoader is used by two threads without a   *)
(* lock, as the code has none: one thread calls load_<table>_data, the      *)
(* other set_period and clear_cache.  A step is one read or write of an      *)
(* attribute of the loader or of a file.  last holds the two calls in       *)
(* progress: the position and the local variables of each, and for the load *)
(* whether an invalidation ended while it ran.                              *)

IdleLoad == [pc |-> "idle"]
IdleReset == [pc |-> "idle"]

InitThreads ==
    /\ period \in Periods
    /\ data_dir = period
    /\ cache = EmptyCache
    /\ \E f \in {Good1("weekly", "overall"), Missing} :
          storage = [g \in Periods |-> [t \in Tables |->
                       IF g = "weekly" /\ t = "overall" THEN f ELSE Good1(g, t)]]
    /\ reads = 0
    /\ writes = 0
    /\ last = [op |-> "threads", load |-> IdleLoad, reset |-> IdleReset,
               outcome |-> "none", survived |-> FALSE]

\* The load in progress after an invalidation has ended
Invalidated(l) == IF l.pc = "idle" THEN l ELSE [l EXCEPT !.invalidated = TRUE]

\* cache_key = f"<table>_{self.period}"
ComputeKey(t, force_reload) ==
    /\ last.load.pc = "idle"
    /\ last' = [last EXCEPT !.load = [pc |-> "test", table |-> t,
                                      force_reload |-> force_reload,
                                      cache_key |-> cache_key(t, period),
                                      invalidated |-> FALSE]]
    /\ UNCHANGED <<period, data_dir, cache, storage, reads, writes>>

\* if cache_key in self._cache and not force_reload
TestCache ==
    /\ last.load.pc = "test"
    /\ last' = [last EXCEPT !.load.pc =
                   IF last.load.cache_key \in DOMAIN cache /\ ~last.load.force_reload
                   THEN "hit" ELSE "path"]
    /\ UNCHANGED <<period, data_dir, cache, storage, reads, writes>>

\* return self._cache[cache_key]
ReturnCached ==
    /\ last.load.pc = "hit"
    /\ last' = [last EXCEPT !.load = IdleLoad,
                            !.outcome = IF last.load.cache_key \in DOMAIN cache
                                        THEN "returned" ELSE "KeyError"]
    /\ UNCHANGED <<period, data_dir, cache, storage, reads, writes>>

\* <table>_file = self.data_dir / "<table>.csv"
BuildPath ==
    /\ last.load.pc = "path"
    /\ last' = [last EXCEPT !.load = [pc |-> "exists", dir |-> data_dir] @@ last.load]
    /\ UNCHANGED <<period, data_dir, cache, storage, reads, writes>>

\* if not <table>_file.exists(): raise FileNotFoundError
CheckExists ==
    /\ last.load.pc = "exists"
    /\ last' = IF storage[last.load.dir][last.load.table].exists
               THEN [last EXCEPT !.load.pc = "read"]
               ELSE [last EXCEPT !.load = IdleLoad, !.outcome = "FileNotFoundError"]
    /\ UNCHANGED <<period, data_dir, cache, storage, reads, writes>>

\* df = pd.read_csv(<table>_file)
ReadCsv ==
    /\ last.load.pc = "read"
    /\ reads < MaxReads
    /\ reads' = reads + 1
    /\ last' = [last EXCEPT !.load =
                   [pc |-> "parse", file |-> storage[last.load.dir][last.load.table],
                    id |-> reads + 1] @@ last.load]
    /\ UNCHANGED <<period, data_dir, cache, storage, writes>>

\* if self.period == "monthly": df["month"] = pd.to_datetime(df["month"])
\* else: df["week_start"] = pd.to_datetime(df["week_start"])
ParseDates ==
    /\ last.load.pc = "parse"
    /\ last' = IF ~last.load.file.exists \/ parse_raises(last.load.file, period, last.load.table)
               THEN [last EXCEPT !.load = IdleLoad, !.outcome = "KeyError"]
               ELSE [last EXCEPT !.load =
                        [pc |-> "store",
                         df |-> [id |-> last.load.id,
                                 data |-> read_and_parse(last.load.file, period,
                                                         last.load.table),
                                 dir |-> last.load.dir]] @@ last.load]
    /\ UNCHANGED <<period, data_dir, cache, storage, reads, writes>>

\* self._cache[cache_key] = df; return df
StoreEntry ==
    /\ last.load.pc = "store"
    /\ cache' = (last.load.cache_key :> last.load.df) @@ cache
    /\ last' = [last EXCEPT !.load = IdleLoad, !.outcome = "returned",
                            !.survived = last.load.invalidated]
    /\ UNCHANGED <<period, data_dir, storage, reads, writes>>

\* set_period: self.period = period
AssignPeriod(g) ==
    /\ last.reset.pc = "idle"
    /\ period' = g
    /\ last' = [last EXCEPT !.reset = [pc |-> "dir", period |-> g]]
    /\ UNCHANGED <<data_dir, cache, storage, reads, writes>>

\* set_period: self.data_dir = base_dir / period
AssignDataDir ==
    /\ last.reset.pc = "dir"
    /\ data_dir' = last.reset.period
    /\ last' = [last EXCEPT !.reset.pc = "clear"]
    /\ UNCHANGED <<period, cache, storage, reads, writes>>

\* set_period: self.clear_cache()
ClearInSetPeriod ==
    /\ last.reset.pc = "clear"
    /\ cache' = EmptyCache
    /\ last' = [last EXCEPT !.reset = IdleReset, !.load = Invalidated(last.load),
                            !.survived = FALSE]
    /\ UNCHANGED <<period, data_dir, storage, reads, writes>>

\* clear_cache: self._cache.clear()
ClearCacheCall ==
    /\ last.reset.pc = "idle"
    /\ cache' = EmptyCache
    /\ last' = [last EXCEPT !.load = Invalidated(last.load), !.survived = FALSE]
    /\ UNCHANGED <<period, data_dir, storage, reads, writes>>

NextThreads ==
    \/ \E t \in {"overall", "agent"}, force_reload \in BOOLEAN : ComputeKey(t, force_reload)
    \/ TestCache
    \/ ReturnCached
    \/ BuildPath
    \/ CheckExists
    \/ ReadCsv
    \/ ParseDates
    \/ StoreEntry
    \/ \E g \in Periods : AssignPeriod(g)
    \/ AssignDataDir
    \/ ClearInSetPeriod
    \/ ClearCacheCall

ThreadSpec == InitThreads /\ [][NextThreads]_vars

-----------------------------------------------------------------------------
(* Record store: cache, invalidation, granularity *)

LastKey == cache_key(last.table, period)

\* C1: a load_<table>_data() without force_reload of a table that is cached
\* returns the cached object itself (the one the earlier load returned and
\* stored) and runs no read_csv, whatever the backing file holds by then.
C1_CachedLoadReturnsSameTable ==
    last.op = "load" =>
        /\ last.outcome = "returned" =>
               (LastKey \in DOMAIN cache /\ cache[LastKey] = last.value)
        /\ (last.cached_before /\ ~last.force_reload) =>
               /\ last.outcome = "returned"
               /\ last.value = last.entry_before
               /\ ~last.read

\* A cached table is returned although its backing file has been changed.
C1_Witness ==
    /\ last.op = "load"
    /\ last.cached_before /\ ~last.force_reload
    /\ last.outcome = "returned"
    /\ writes > 0
    /\ last.file # Good1(period, last.table)

\* C2: after clear_cache() the cache is empty, and the load that follows it
\* is not served from the cache: when it returns, it has run read_csv and
\* returns the parsed contents of the file as it is at that moment, an object
\* other than every table cached before the invalidation.
C2_LoadAfterClearRereads ==
    /\ [](last.op = "clear_cache" => DOMAIN cache = {})
    /\ [][(last.op = "clear_cache" /\ last'.op = "load") =>
             /\ ~last'.cached_before
             /\ last'.outcome = "returned" =>
                    /\ last'.read
                    /\ last'.value.data =
                          read_and_parse(storage'[data_dir'][last'.table],
                                         period', last'.table)
                    /\ last'.value.id \notin last.dropped]_vars

\* A table was cached, its file rewritten, the cache cleared and the table
\* loaded again.
C2_Witness ==
    /\ last.op = "load" /\ last.after_clear
    /\ last.outcome = "returned"
    /\ last.value.id > 1
    /\ last.file = Good2(period, last.table)

\* C3: set_period(g) sets the granularity to g and empties the cache; every
\* cached table is keyed by, and was read from the directory of, the current
\* granularity, and a load returns a table read from that directory.
C3_CacheOfCurrentGranularity ==
    /\ data_dir = period
    /\ \A k \in DOMAIN cache : k[2] = period /\ cache[k].dir = period
    /\ last.op = "set_period" => (period = last.period /\ DOMAIN cache = {})
    /\ (last.op = "load" /\ last.outcome = "returned") => last.value.dir = period

\* set_period switched the granularity while tables of the other one were
\* cached.
C3_Witness ==
    /\ last.op = "set_period"
    /\ \E g \in last.dropped : g # period

\* C4: a load that has to read storage (table not cached, or force_reload)
\* raises FileNotFoundError when the backing file does not exist, and returns
\* no table.
C4_MissingFileRaises ==
    (/\ last.op = "load"
     /\ ~last.cached_before \/ last.force_reload
     /\ ~last.file.exists)
        => (last.outcome = "FileNotFoundError" /\ last.value = NoDataFrame)

\* A forced reload of a cached table whose file has been removed.
C4_Witness ==
    /\ last.op = "load"
    /\ last.cached_before /\ last.force_reload
    /\ ~last.file.exists
    /\ last.outcome = "FileNotFoundError"

\* C5: every load that reads a table from storage returns and caches it only
\* if it passes validate_data_integrity (required columns present, at least
\* one row).
C5_LoadValidatesSchema ==
    (last.op = "load" /\ last.read /\ last.outcome = "returned")
        => validate_data_integrity(last.value.data, last.table) = "True"

-----------------------------------------------------------------------------
(* Period resolver and aggregator: periods *)

\* The tables as a load reads them from the files of the report
OverallTable == read_and_parse(storage[data_dir]["overall"], period, "overall")
AgentTable == read_and_parse(storage[data_dir]["agent"], period, "agent")
ChannelTable == read_and_parse(storage[data_dir]["channel"], period, "channel")

\* The period keys present in the overall table
PeriodKeys == Range(column(OverallTable, date_col(period)))

PeriodsOf(rows) == [i \in 1..Len(rows) |-> rows[i][date_col(period)]]

\* C6: the period keys get_available_periods() returns are strictly
\* descending and are the period keys of the overall table, each once.
C6_PeriodsStrictlyDescending ==
    (last.op = "get_available_periods" /\ last.outcome = "returned") =>
        LET keys == PeriodsOf(last.value)
        IN  /\ \A i, j \in 1..Len(keys) : i < j => keys[i] > keys[j]
            /\ Range(keys) = PeriodKeys

\* C7: the previous period of the current period is the second entry of
\* the available periods when two or more periods exist, and None when
\* one period exists.
C7_PreviousOfCurrentIsSecond ==
    (last.op = "render_selector" /\ last.outcome = "returned") =>
        /\ Cardinality(PeriodKeys) >= 2 =>
               last.previous = PeriodsOf(last.available)[2]
        /\ Cardinality(PeriodKeys) = 1 => last.previous = None

\* C8: for a period p of the overall table, get_previous returns the greatest
\* period key of the table below p, and None exactly when there is none; the
\* result is a function of the set of keys alone.
C8_PreviousIsNextOlderKey ==
    (last.op = "get_previous" /\ last.current \in PeriodKeys) =>
        LET older == {k \in PeriodKeys : k < last.current}
        IN  /\ last.outcome = "returned"
            /\ older = {} => last.value = None
            /\ older # {} =>
                   (last.value \in older /\ \A k \in older : k <= last.value)

\* get_previous answered with a period on a table whose rows are out of
\* order and repeat a period.
C8_Witness ==
    /\ last.op = "get_previous" /\ last.current \in PeriodKeys
    /\ last.outcome = "returned" /\ last.value # None
    /\ Len(OverallTable.rows) > Cardinality(PeriodKeys)
    /\ \E i, j \in 1..Len(OverallTable.rows) :
           i < j /\ OverallTable.rows[i][date_col(period)]
                      < OverallTable.rows[j][date_col(period)]

\* C9: get_previous of a period that is not in the overall table fails
\* with PeriodNotFoundError.
C9_AbsentPeriodRaisesPeriodNotFound ==
    (last.op = "get_previous" /\ last.current \notin PeriodKeys) =>
        last.outcome = "PeriodNotFoundError"

\* C10: without a period argument, calculate_productivity_metrics,
\* get_agent_metrics and get_channel_metrics work on the current period, the
\* greatest period key of the overall table: the overall row and the agent
\* rows of one snapshot are of that period.
C10_OmittedPeriodIsCurrentPeriod ==
    LET current == get_current(OverallTable, period)
    IN  current # NaT =>
        /\ (/\ last.op = "calculate_productivity_metrics"
             /\ last.period_date = None /\ last.outcome = "returned") =>
               /\ last.overall[date_col(period)] = current
               /\ \A i \in 1..Len(last.agent_rows) :
                      last.agent_rows[i][date_col(period)] = current
               /\ last.agent_rows = rows_where(AgentTable.rows, date_col(period), current)
        /\ (/\ last.op = "get_agent_metrics"
             /\ last.period_date = None /\ last.agent_id = None
             /\ last.outcome = "returned") =>
               last.value = rows_where(AgentTable.rows, date_col(period), current)
        /\ (/\ last.op = "get_channel_metrics"
             /\ last.period_date = None /\ last.channel = NoChannel
             /\ last.outcome = "returned") =>
               last.value = rows_where(ChannelTable.rows, date_col(period), current)

-----------------------------------------------------------------------------
(* Aggregator: snapshots and row queries *)

\* A period argument that is a calendar date, as the period keys are
Midnight(ts) == ts % TicksPerDay = 0

\* C11: calculate_productivity_metrics(p) for a period p without a row in
\* the overall table returns a snapshot whose every field is 0 and raises no
\* error, whatever the agent table holds for p.
C11_NoOverallRowGivesZeroSnapshot ==
    (/\ last.op = "calculate_productivity_metrics"
     /\ last.period_date # None /\ Midnight(last.period_date)
     /\ last.period_date \notin PeriodKeys) =>
        /\ last.outcome = "returned"
        /\ \A k \in DOMAIN last.value : last.value[k] = 0

\* The snapshot of a period without an overall row for which the agent table
\* has rows.
C11_Witness ==
    /\ last.op = "calculate_productivity_metrics"
    /\ last.period_date # None /\ Midnight(last.period_date)
    /\ last.period_date \notin PeriodKeys
    /\ last.outcome = "returned"
    /\ Len(rows_where(AgentTable.rows, date_col(period), last.period_date)) > 0
    /\ Len(last.agent_rows) > 0

\* C12: calculate_productivity_metrics returns the same fixed set of keys
\* for every period, with or without an overall row: total interactions, the
\* four per-channel totals, handle time, wait time, first-call resolution,
\* satisfaction, total cost, cost per interaction, distinct agent count and
\* interactions per agent.
C12_SnapshotKeysFixed ==
    (last.op = "calculate_productivity_metrics" /\ last.outcome = "returned") =>
        DOMAIN last.value =
            {"total_interactions", "total_calls", "total_emails", "total_chats",
             "total_whatsapp", "avg_handle_time", "avg_wait_time",
             "first_call_resolution_rate", "customer_satisfaction_score",
             "total_cost", "cost_per_interaction", "unique_agents",
             "interactions_per_agent"}

\* The distinct agent ids among the agent rows of the period of the last call
AgentIdsOfPeriod ==
    {AgentTable.rows[i]["agent_id"] :
        i \in {j \in 1..Len(AgentTable.rows) :
                 AgentTable.rows[j][date_col(period)] = last.period_date}}

\* A snapshot calculate_productivity_metrics(p) returned for a calendar date
\* p that has an overall row
SnapshotOfPeriodWithRow ==
    /\ last.op = "calculate_productivity_metrics" /\ last.outcome = "returned"
    /\ last.period_date # None /\ Midnight(last.period_date)
    /\ last.period_date \in PeriodKeys

\* C13 as stated: for a period with an overall row, unique_agents is the
\* number of distinct agent ids among the period's agent rows and
\* interactions_per_agent is exactly total_interactions / unique_agents when
\* unique_agents > 0; without agent rows both are 0.
C13_InteractionsPerAgentExact ==
    SnapshotOfPeriodWithRow =>
        /\ last.value["unique_agents"] = Cardinality(AgentIdsOfPeriod)
        /\ last.value["unique_agents"] > 0 =>
               last.value["interactions_per_agent"] * last.value["unique_agents"]
                   = 100 * last.value["total_interactions"]
        /\ AgentIdsOfPeriod = {} =>
               last.value["interactions_per_agent"] = 0

\* C13 amended: as above, interactions_per_agent being the quotient rounded
\* to two decimals, that is within half a hundredth of the quotient.
C13_InteractionsPerAgentRounded ==
    SnapshotOfPeriodWithRow =>
        LET ua == last.value["unique_agents"]
            d == 100 * last.value["total_interactions"]
                     - last.value["interactions_per_agent"] * ua
        IN  /\ ua = Cardinality(AgentIdsOfPeriod)
            /\ ua > 0 => (2 * d <= ua /\ 2 * (0 - d) <= ua)
            /\ AgentIdsOfPeriod = {} =>
                   (ua = 0 /\ last.value["interactions_per_agent"] = 0)

\* A snapshot over three distinct agents whose quotient does not end at two
\* decimals, from an agent table that repeats an agent.
C13_Witness ==
    /\ SnapshotOfPeriodWithRow
    /\ last.value["unique_agents"] = 3
    /\ Len(last.agent_rows) >= 3
    /\ (100 * last.value["total_interactions"]) % 3 # 0

\* C14: get_agent_metrics(p, a) returns exactly the agent rows whose period
\* key is p and, when a is given, whose agent_id is a; get_channel_metrics(p,
\* c) does the same with the channel; without a matching row each returns an
\* empty table and raises no error.
C14_RowQueriesFilterExactly ==
    /\ (/\ last.op = "get_agent_metrics"
        /\ last.period_date # None /\ Midnight(last.period_date)) =>
           /\ last.outcome = "returned"
           /\ last.value =
                  SelectSeq(AgentTable.rows,
                            LAMBDA r : /\ r[date_col(period)] = last.period_date
                                       /\ (last.agent_id # None =>
                                               r["agent_id"] = last.agent_id))
    /\ (/\ last.op = "get_channel_metrics"
        /\ last.period_date # None /\ Midnight(last.period_date)) =>
           /\ last.outcome = "returned"
           /\ last.value =
                  SelectSeq(ChannelTable.rows,
                            LAMBDA r : /\ r[date_col(period)] = last.period_date
                                       /\ (last.channel # NoChannel =>
                                               r["channel"] = last.channel))

\* get_agent_metrics(p, a) on a table that has a row of p and a, a row of p
\* and another agent, and so returns fewer rows than the period has.
C14_Witness ==
    /\ last.op = "get_agent_metrics" /\ last.outcome = "returned"
    /\ last.period_date # None /\ Midnight(last.period_date)
    /\ last.agent_id # None
    /\ Len(last.value) > 0
    /\ Len(last.value) < Len(rows_where(AgentTable.rows, date_col(period), last.period_date))

-----------------------------------------------------------------------------
(* Aggregator: trends *)

\* A trend returned for a metric that is a column of the overall table
TrendOfColumn ==
    /\ last.op = "get_trend_data" /\ last.outcome = "returned"
    /\ last.metric_name \in OverallTable.cols

\* C15: get_trend_data(m, n) for a column m returns the entries of the n
\* most recent distinct period keys of the overall table in ascending order:
\* the result covers min(n, number of distinct periods) different keys.
C15_TrendCoversRecentDistinctPeriods ==
    TrendOfColumn =>
        LET keys == PeriodsOf(last.value)
            k == Cardinality(PeriodKeys)
        IN  /\ \A i, j \in 1..Len(keys) : i < j => keys[i] <= keys[j]
            /\ Range(keys) \subseteq PeriodKeys
            /\ \A x \in Range(keys), y \in PeriodKeys \ Range(keys) : y < x
            /\ Cardinality(Range(keys)) = IF last.num_periods < k THEN last.num_periods ELSE k

\* C16: with k periods in the overall table and k < n, get_trend_data(m, n)
\* returns exactly k entries, one per period, ascending; it never pads and
\* never raises.
C16_FewerPeriodsThanAsked ==
    (/\ last.op = "get_trend_data"
     /\ last.metric_name \in OverallTable.cols
     /\ Cardinality(PeriodKeys) < last.num_periods) =>
        /\ last.outcome = "returned"
        /\ LET keys == PeriodsOf(last.value)
           IN  /\ Len(keys) = Cardinality(PeriodKeys)
               /\ Range(keys) = PeriodKeys
               /\ \A i, j \in 1..Len(keys) : i < j => keys[i] < keys[j]

\* C17: get_trend_data(m, n) returns an empty sequence and raises no error
\* when m is not a column of the overall table, for every n.
C17_UnknownMetricGivesEmptyTrend ==
    (last.op = "get_trend_data" /\ last.metric_name \notin OverallTable.cols) =>
        /\ last.outcome = "returned"
        /\ Len(last.value) = 0

\* A trend asked over a positive number of periods for a metric that is not
\* a column, the overall table having rows.
C17_Witness ==
    /\ last.op = "get_trend_data" /\ last.outcome = "returned"
    /\ last.metric_name \notin OverallTable.cols
    /\ last.num_periods > 0
    /\ Len(OverallTable.rows) > 0

-----------------------------------------------------------------------------
(* Delta calculator *)

\* The keys of the last call whose value is a number in both dicts
NumericInBoth ==
    {k \in DOMAIN last.current_metrics \cap DOMAIN last.previous_metrics :
        last.current_metrics[k].num /\ last.previous_metrics[k].num}

\* The trend tag of a difference
TrendOf(delta) == IF delta > 0 THEN "up" ELSE IF delta < 0 THEN "down" ELSE "flat"

\* C18 as stated: for every key k that is a number in both snapshots with
\* previous[k] # 0, calculate_deltas gives value = current[k] - previous[k],
\* percentage exactly 100 * value / previous[k] and the trend of the sign of
\* value.
C18_DeltaPercentageExact ==
    last.op = "calculate_deltas" =>
        \A k \in NumericInBoth :
            LET c == last.current_metrics[k].v
                p == last.previous_metrics[k].v
            IN  p # 0 =>
                /\ k \in DOMAIN last.value
                /\ last.value[k].value = c - p
                /\ last.value[k].percentage * p = 10000 * (c - p)
                /\ last.value[k].trend = TrendOf(c - p)

\* C18 amended: as above, the percentage being 100 * value / previous[k]
\* rounded to two decimals, that is within half a hundredth of it.
C18_DeltaPercentageRounded ==
    last.op = "calculate_deltas" =>
        \A k \in NumericInBoth :
            LET c == last.current_metrics[k].v
                p == last.previous_metrics[k].v
                e == 10000 * (c - p) - last.value[k].percentage * p
            IN  p # 0 =>
                /\ k \in DOMAIN last.value
                /\ last.value[k].value = c - p
                /\ 2 * e <= (IF p < 0 THEN 0 - p ELSE p)
                /\ 2 * (0 - e) <= (IF p < 0 THEN 0 - p ELSE p)
                /\ last.value[k].trend = TrendOf(c - p)

\* The deltas of total_interactions 1100 against 1000 (100, 10.0, up) and of
\* total_cost 5500 against 5000 (500, 10.0, up).
C18_Witness ==
    /\ last.op = "calculate_deltas"
    /\ DOMAIN last.current_metrics = DeltaKeys
    /\ DOMAIN last.previous_metrics = DeltaKeys
    /\ last.current_metrics["total_interactions"] = Number(1100)
    /\ last.previous_metrics["total_interactions"] = Number(1000)
    /\ last.value["total_interactions"] =
           [value |-> 100, percentage |-> 1000, trend |-> "up"]
    /\ last.current_metrics["total_cost"] = Number(5500)
    /\ last.previous_metrics["total_cost"] = Number(5000)
    /\ last.value["total_cost"] =
           [value |-> 500, percentage |-> 1000, trend |-> "up"]

\* C19: for a key k that is a number in both snapshots with previous[k] = 0,
\* calculate_deltas gives percentage 0, trend "flat" and value = current[k],
\* without an exception, also when current[k] is not 0.
C19_ZeroPreviousIsFlat ==
    last.op = "calculate_deltas" =>
        \A k \in NumericInBoth :
            last.previous_metrics[k].v = 0 =>
                /\ last.outcome = "returned"
                /\ k \in DOMAIN last.value
                /\ last.value[k] = [value |-> last.current_metrics[k].v,
                                    percentage |-> 0, trend |-> "flat"]

\* The deltas of a positive and of a negative current value against 0.
C19_Witness ==
    /\ last.op = "calculate_deltas" /\ last.outcome = "returned"
    /\ \E k \in NumericInBoth :
           last.previous_metrics[k].v = 0 /\ last.current_metrics[k].v > 0
    /\ \E k \in NumericInBoth :
           last.previous_metrics[k].v = 0 /\ last.current_metrics[k].v < 0

\* The keys of current_metrics whose value is a number
NumericInCurrent ==
    {k \in DOMAIN last.current_metrics : last.current_metrics[k].num}

\* C20 as stated: for every key k that is a number in current, when k is
\* absent from previous or previous[k] is not a number, the result has k with
\* {value: current[k], percentage: 0, trend: "flat"}; so the result has an
\* entry for every numeric key of current.
C20_EveryNumericKeyHasEntry ==
    last.op = "calculate_deltas" =>
        /\ \A k \in NumericInCurrent :
               (k \notin DOMAIN last.previous_metrics
                   \/ ~last.previous_metrics[k].num) =>
                   /\ k \in DOMAIN last.value
                   /\ last.value[k] = [value |-> last.current_metrics[k].v,
                                       percentage |-> 0, trend |-> "flat"]
        /\ NumericInCurrent \subseteq DOMAIN last.value

\* C20 amended: a numeric key of current that is absent from previous has
\* the entry {value: current[k], percentage: 0, trend: "flat"}; one whose
\* previous value is not a number has no entry; the result has an entry for
\* exactly the numeric keys of current whose previous value is absent or a
\* number.
C20_AbsentKeyIsFlatNonNumericSkipped ==
    last.op = "calculate_deltas" =>
        /\ \A k \in NumericInCurrent :
               /\ k \notin DOMAIN last.previous_metrics =>
                      /\ k \in DOMAIN last.value
                      /\ last.value[k] = [value |-> last.current_metrics[k].v,
                                          percentage |-> 0, trend |-> "flat"]
               /\ (k \in DOMAIN last.previous_metrics
                      /\ ~last.previous_metrics[k].num) =>
                      k \notin DOMAIN last.value
        /\ DOMAIN last.value =
               {k \in NumericInCurrent :
                   k \in DOMAIN last.previous_metrics => last.previous_metrics[k].num}

\* The deltas of a current dict with one numeric key that previous lacks and
\* one numeric key whose previous value is not a number.
C20_Witness ==
    /\ last.op = "calculate_deltas"
    /\ \E k \in NumericInCurrent :
           /\ k \notin DOMAIN last.previous_metrics
           /\ last.current_metrics[k].v # 0
           /\ k \in DOMAIN last.value
    /\ \E k \in NumericInCurrent :
           /\ k \in DOMAIN last.previous_metrics
           /\ ~last.previous_metrics[k].num

\* C21: calculate_deltas(X, X) has value 0, percentage 0 and trend "flat"
\* for every numeric key of X, the keys whose value is 0 included.
C21_DeltaOfSnapshotWithItself ==
    (last.op = "calculate_deltas"
        /\ last.current_metrics = last.previous_metrics) =>
        \A k \in NumericInCurrent :
            /\ k \in DOMAIN last.value
            /\ last.value[k] = [value |-> 0, percentage |-> 0, trend |-> "flat"]

\* The deltas of a snapshot with itself, one of its values being 0 and one
\* not.
C21_Witness ==
    /\ last.op = "calculate_deltas"
    /\ last.current_metrics = last.previous_metrics
    /\ \E k \in NumericInCurrent : last.current_metrics[k].v = 0
    /\ \E k \in NumericInCurrent : last.current_metrics[k].v # 0
    /\ DOMAIN last.value = NumericInCurrent

-----------------------------------------------------------------------------
(* Frame: who changes what *)

\* C23: every table held in the cache has exactly the rows and columns it
\* had when it was read from storage, whatever aggregator, resolver and
\* consumer operations (rendering the agent content among them) have run.
C23_CachedTablesAsRead ==
    \A key \in DOMAIN cache :
        cache[key].data =
            read_and_parse(storage[cache[key].dir][key[1]], key[2], key[1])

\* C24: the cache is the only state the core changes.  An entry is added or
\* replaced only by a load that reads storage, and it is the entry of the
\* loaded table; entries are removed only by clear_cache and set_period; the
\* granularity and the data directory change only in set_period; and a step
\* that changes storage is no operation of the core: it leaves the loader
\* and the record of its last operation as they were.
C24_CoreChangesOnlyTheCache ==
    [][/\ \A key \in DOMAIN cache' :
              (key \notin DOMAIN cache \/ cache'[key] # cache[key]) =>
                  /\ last'.op = "load" /\ last'.read /\ last'.outcome = "returned"
                  /\ reads' = reads + 1
                  /\ key = cache_key(last'.table, period)
                  /\ cache'[key] = last'.value
       /\ (\E key \in DOMAIN cache : key \notin DOMAIN cache') =>
              /\ last'.op \in {"clear_cache", "set_period"}
              /\ cache' = EmptyCache
       /\ (period' # period \/ data_dir' # data_dir) =>
              /\ last'.op = "set_period"
              /\ last'.period = period' /\ data_dir' = period'
       /\ storage' # storage =>
              UNCHANGED <<period, data_dir, cache, reads, last>>]_vars

\* A load has added a second entry to the cache after the data producer
\* rewrote a file.
C24_Witness ==
    /\ last.op = "load" /\ last.read /\ last.outcome = "returned"
    /\ Cardinality(DOMAIN cache) >= 2
    /\ writes > 0

\* C25: load_<table>_data(force_reload=True) of a file that is there and
\* parses reads the table from storage whether it is cached or not, puts the
\* table just read in the cache in place of the entry, and the next load of
\* that table without force_reload returns that same table without a read,
\* also when the file has been rewritten since.
C25_ForceReloadReadsAndReplaces ==
    /\ [](/\ last.op = "load" /\ last.force_reload
          /\ last.file.exists /\ ~parse_raises(last.file, period, last.table)
          => /\ last.outcome = "returned" /\ last.read
             /\ last.value.data = read_and_parse(last.file, period, last.table)
             /\ last.cached_before => last.value.id # last.entry_before.id
             /\ LastKey \in DOMAIN cache /\ cache[LastKey] = last.value)
    /\ [][(/\ last.op = "load" /\ last.force_reload /\ last.outcome = "returned"
           /\ last'.op = "load" /\ ~last'.force_reload
           /\ last'.table = last.table)
          => /\ last'.outcome = "returned" /\ ~last'.read
             /\ last'.value = last.value]_vars

\* A forced load of a cached table whose file was rewritten in between: the
\* table returned differs from the entry that was cached.
C25_Witness ==
    /\ last.op = "load" /\ last.force_reload /\ last.outcome = "returned"
    /\ last.cached_before
    /\ last.value.data # last.entry_before.data
    /\ cache[LastKey] = last.value

-----------------------------------------------------------------------------
(* Cost figures *)

\* A snapshot returned for a period whose total_interactions is above 0
SnapshotWithInteractions ==
    /\ last.op = "calculate_productivity_metrics" /\ last.outcome = "returned"
    /\ last.value["total_interactions"] > 0

\* C26 as stated: in every snapshot of a period with total_interactions > 0,
\* cost_per_interaction is exactly total_cost / total_interactions.
C26_CostPerInteractionExact ==
    SnapshotWithInteractions =>
        last.value["cost_per_interaction"] * last.value["total_interactions"]
            = 100 * last.value["total_cost"]

\* C26 amended: the snapshot returns the total_cost and cost_per_interaction
\* stored in the overall row, and for rows as the data generator writes them
\* cost_per_interaction is total_cost / total_interactions rounded to two
\* decimals, that is within half a hundredth of the quotient.
C26_CostPerInteractionRounded ==
    SnapshotWithInteractions =>
        LET e == 100 * last.value["total_cost"]
                     - last.value["cost_per_interaction"] * last.value["total_interactions"]
        IN  /\ last.value["total_cost"] = last.overall["total_cost"]
            /\ last.value["cost_per_interaction"] = last.overall["cost_per_interaction"]
            /\ 2 * e <= last.value["total_interactions"]
            /\ 2 * (0 - e) <= last.value["total_interactions"]

\* A snapshot whose total cost is not a multiple of a hundredth of its
\* interactions, so that the stored quotient is a rounded one.
C26_Witness ==
    /\ SnapshotWithInteractions
    /\ last.value["total_cost"] > 0
    /\ (100 * last.value["total_cost"]) % last.value["total_interactions"] # 0

-----------------------------------------------------------------------------
(* Threads *)

\* C27: with loads and invalidations of several threads, no interleaving
\* leaves in the cache a table that stands under the key of one granularity
\* and was read from the files of the other, nor an entry stored by a load
\* that an invalidation ran through.
C27_LoadsAndInvalidationsExclusive ==
    /\ \A key \in DOMAIN cache : cache[key].dir = key[2]
    /\ ~last.survived

-----------------------------------------------------------------------------
(* Failed loads *)

\* C28: a load_<table>_data() that fails because the file is missing, with
\* or without force_reload, leaves the loader as it was: the cache with all
\* its entries, the entry of that table among them, the granularity and the
\* data directory; and it has read nothing.
C28_FailedLoadChangesNothing ==
    [][(last' # last /\ last'.op = "load" /\ last'.outcome = "FileNotFoundError") =>
          /\ ~last'.file.exists
          /\ UNCHANGED <<cache, period, data_dir, reads, storage>>
          /\ last'.cached_before =>
                 /\ cache_key(last'.table, period) \in DOMAIN cache'
                 /\ cache'[cache_key(last'.table, period)] = last'.entry_before]_vars

\* A forced load of a cached table whose file was removed has failed, and
\* the entry cached before is still there.
C28_Witness ==
    /\ last.op = "load" /\ last.outcome = "FileNotFoundError"
    /\ last.force_reload /\ last.cached_before
    /\ LastKey \in DOMAIN cache /\ cache[LastKey] = last.entry_before
    /\ Cardinality(DOMAIN cache) >= 1

C30_OldestPeriodComparesWithNothing ==
    (/\ last.op = "tab"
     /\ last.selected \in PeriodKeys
     /\ \A k \in PeriodKeys : last.selected <= k) =>
        /\ last.outcome = "returned"
        /\ last.prev = None
        /\ last.previous_metrics = EmptyDict
        /\ last.current_metrics =
               as_metrics(productivity_snapshot(
                   get_overall_metrics(OverallTable, period, last.selected).value,
                   get_agent_metrics(AgentTable, period, last.selected, None)))
        /\ \A k \in DOMAIN last.current_metrics :
               isinstance_number(last.current_metrics[k]) =>
                   /\ k \in DOMAIN last.deltas
                   /\ last.deltas[k] = [value |-> last.current_metrics[k].v,
                                        percentage |-> 0, trend |-> "flat"]

\* The oldest of two periods selected, its snapshot taken from agent rows too.
C30_Witness ==
    /\ last.op = "tab"
    /\ last.outcome = "returned"
    /\ last.selected \in PeriodKeys
    /\ \A k \in PeriodKeys : last.selected <= k
    /\ Cardinality(PeriodKeys) >= 2
    /\ last.previous_metrics = EmptyDict
    /\ last.current_metrics["total_interactions"].v > 0
    /\ last.current_metrics["unique_agents"].v > 0
    /\ last.deltas["total_interactions"].value = last.current_metrics["total_interactions"].v
    /\ DOMAIN last.deltas = DOMAIN last.current_metrics

====
